---- MODULE Spec2Model ----
(***************************************************************************)
(* Model of the IELTS writing-test backend: band-score aggregation,        *)
(* submitWritingTest with merge-on-resubmit, the expert-review handlers,   *)
(* the middleware of the routes, adminLogin, the Google sign-in callback   *)
(* and the role helpers.                                                   *)
(*                                                                         *)
(* A handler is a sequence of steps, one per await: a query or a write is  *)
(* applied to the tables in one step, and the steps of different requests  *)
(* interleave.  Spec runs the submission and expert-review handlers,       *)
(* BandSpec calls calculateAverageBand on every pair of bands, AuthSpec    *)
(* passes requests through authenticate while users are updated.           *)
(* RouteSpec follows a request through the middleware of its route to the  *)
(* handler, RoleSpec applies the role guards to every req.user, ReviewSpec *)
(* runs the expert-review and read handlers over stored submissions,       *)
(* OverlapSpec runs two overlapping submitWritingTest requests,           *)
(* LoginSpec runs adminLogin over every users table, GoogleSpec runs       *)
(* googleAuthCallback and RoleHelperSpec the calls of utils/roleHelper.js. *)
(*                                                                         *)
(* Optional JavaScript values (null / undefined versus a value) are        *)
(* sequences of length 0 or 1.  Band scores are integers in twelfths of a  *)
(* band (6.5 is 78), so that halves, quarters and the thirds produced by   *)
(* the weighted average are all exact.                                     *)
(***************************************************************************)
EXTENDS Integers, Sequences, FiniteSets, TLC

VARIABLES
    calcIn,          \* arguments of a calculateAverageBand call
    calcOut,         \* its return value, None before the call
    submissions,     \* table writing_submissions, a sequence indexed by id
    reviewRequests,  \* table expert_review_requests, a sequence indexed by id
    procs,           \* the request handlers: position, request body, locals
    nreq,            \* number of requests received so far
    response,        \* the latest response sent: handler, status, message
    users,           \* table users: the status of each row, or Absent
    auth,            \* the request passing through the middleware of its route
    NODE_ENV,        \* process.env.NODE_ENV
    credentials,     \* users.password of each row: a bcrypt hash, or None
    login,           \* the adminLogin request
    roleTable,       \* table roles: the names of its rows
    model_has_roles, \* table model_has_roles joined with roles, a sequence
    accounts,        \* users.email, google_id and auth_provider of each row
    google,          \* the googleAuthCallback request
    roleCall         \* the latest call of assignRoleToUser / removeRoleFromUser

bandVars == <<calcIn, calcOut>>
authVars == <<users, auth>>
loginVars == <<credentials, login>>
roleVars == <<roleTable, model_has_roles, accounts, google, roleCall>>
sideVars ==
    <<calcIn, calcOut, users, auth, NODE_ENV, credentials, login, roleVars>>
dbVars == <<submissions, reviewRequests>>
reqVars == <<procs, nreq, response>>
\* What the middleware and the handlers of users leave alone.
chainRest == <<bandVars, dbVars, reqVars, NODE_ENV, loginVars, roleVars>>
vars ==
    <<calcIn, calcOut, submissions, reviewRequests, procs, nreq, response,
      users, auth, NODE_ENV, credentials, login, roleTable, model_has_roles,
      accounts, google, roleCall>>

None == <<>>
Some(v) == <<v>>

\* JavaScript truthiness of an optional number: null, undefined and 0 are falsy.
TruthyNum(x) == x # None /\ x[1] # 0

\* JavaScript truthiness of an optional string: null, undefined and "" are falsy.
TruthyStr(x) == x # None /\ x[1] # ""

----------------------------------------------------------------------------
(* Band-score aggregation (services/openaiService.js)                      *)

\* Largest band, in quarters of a band (9.0).
MaxQuarter == 36

\* Math.floor and Math.ceil of a score in twelfths, as a score in twelfths.
MathFloor(score) == 12 * (score \div 12)
MathCeil(score) == IF score % 12 = 0 THEN score ELSE 12 * (score \div 12) + 12

roundBandScore_lowBoundaryInclusive(score) ==
    LET decimal == score - MathFloor(score)
    IN  IF decimal <= 3 THEN MathFloor(score)
        ELSE IF decimal >= 3 /\ decimal < 9 THEN MathFloor(score) + 6
        ELSE MathCeil(score)

\* decimal < 0.25 is decimal < 3 twelfths, decimal < 0.75 is decimal < 9.
roundBandScore(score) ==
    LET decimal == score - MathFloor(score)
    IN  IF decimal < 3 THEN MathFloor(score)
        ELSE IF decimal >= 3 /\ decimal < 9 THEN MathFloor(score) + 6
        ELSE MathCeil(score)

\* !band is true for null, undefined and 0.
calculateAverageBand(task1Band, task2Band) ==
    IF ~TruthyNum(task1Band) /\ ~TruthyNum(task2Band) THEN 0
    ELSE IF ~TruthyNum(task1Band) THEN roundBandScore(task2Band[1])
    ELSE IF ~TruthyNum(task2Band) THEN roundBandScore(task1Band[1])
    ELSE LET average == (task1Band[1] + (2 * task2Band[1])) \div 3
         IN  roundBandScore(average)

\* The bands a caller can pass: absent, or 0..9 in quarter steps.
BandInputs == {None} \cup {Some(3 * q) : q \in 0..MaxQuarter}

----------------------------------------------------------------------------
(* Requests and tables                                                     *)

\* Bounds of the model.
NumUsers == 2
MaxRequests == 3
MaxSubs == 2
MaxInFlight == 2
MaxSubmitsInFlight == 1
MaxOverlapping == 2

UserIds == 1..NumUsers
ProcIds == 1..MaxRequests

\* tests.findUnique with its writing_questions: test 1 is the only row of
\* tests, with a question for each task.
writing_questions ==
    [t \in {1} |-> {[task_number |-> 1, word_limit |-> 3],
                    [task_number |-> 2, word_limit |-> 4]}]

\* test_id as sent by the client: 0 is a missing test_id, 2 an unknown test.
RequestTestIds == 0..2

\* An entry of answers for one task: none, or an answer with its word count.
\* Word count 2 reaches half of either word limit, 1 does not, 0 marks a task
\* left empty.  The client sends answer_text and word_count independently.
TaskEntries ==
    {None} \cup {Some([answer_text |-> "a", word_count |-> w]) : w \in {0, 1, 2}}
           \cup {Some([answer_text |-> t, word_count |-> 2]) : t \in {"", "b"}}
TimesTaken == {1}

\* overall_band values the AI evaluator returns (6.0 and 7.5).
AIBands == {72, 90}

NoBody == <<>>
NoLocal == <<>>
IdleProc ==
    [pc |-> "idle", op |-> "none", user |-> 0, body |-> NoBody,
     local |-> NoLocal]

\* A handler that has answered.
DoneProc ==
    [pc |-> "done", op |-> "none", user |-> 0, body |-> NoBody,
     local |-> NoLocal]

NoResponse == [op |-> "none", status |-> 0, message |-> ""]

\* res.status(code).json({ success, message, ... }) by the handler of request p.
Respond(p, op, code, message) ==
    /\ procs' = [procs EXCEPT ![p] = DoneProc]
    /\ response' = [op |-> op, status |-> code, message |-> message]

InFlight(p) == procs[p].pc \notin {"idle", "done"}

\* Requests arrive one after another; request number n is handled by proc n,
\* and at most MaxInFlight handlers are between two awaits at a time.
Arrives(p) ==
    /\ p = nreq + 1
    /\ procs[p].pc = "idle"
    /\ Cardinality({q \in ProcIds : InFlight(q)}) < MaxInFlight

\* A submitWritingTest request arrives while fewer than MaxSubmitsInFlight
\* handlers of it are between two awaits.
SubmitArrives(p) ==
    /\ Arrives(p)
    /\ Cardinality({q \in ProcIds : procs[q].op = "submitWritingTest"})
          < MaxSubmitsInFlight

Rows(table) == {table[i] : i \in 1..Len(table)}

----------------------------------------------------------------------------
(* submitWritingTest (controllers/userController.js)                       *)

Entry(body, n) == IF n = 1 THEN body.task1 ELSE body.task2

\* const hasTask1Content = task1Answer && task1Answer.word_count > 0
hasTaskContent(body, n) ==
    Entry(body, n) # None /\ Entry(body, n)[1].word_count > 0

RowAnswer(row, n) == IF n = 1 THEN row.task1_answer ELSE row.task2_answer
RowWordCount(row, n) ==
    IF n = 1 THEN row.task1_word_count ELSE row.task2_word_count
RowEval(row, n) ==
    IF n = 1 THEN row.ai_evaluation.task1 ELSE row.ai_evaluation.task2

\* Existing task that will not be overwritten (lines 925-937).
existingTask(body, existing, n) ==
    IF existing # None /\ TruthyStr(RowAnswer(existing[1], n))
          /\ ~hasTaskContent(body, n)
    THEN Some([answer_text |-> RowAnswer(existing[1], n)[1],
               word_count |-> RowWordCount(existing[1], n)])
    ELSE None

hasFinalTask(body, existing, n) ==
    hasTaskContent(body, n) \/ existingTask(body, existing, n) # None

minWords_floor(word_limit) == word_limit \div 2

\* Math.ceil(word_limit * 0.5)
minWords(word_limit) == (word_limit + 1) \div 2

Question(test_id, n) ==
    {q \in writing_questions[test_id] : q.task_number = n}

\* Word-count check of one task (lines 950-968).
tooShort(body, n) ==
    /\ Entry(body, n) # None
    /\ Entry(body, n)[1].word_count > 0
    /\ \E q \in Question(body.test_id, n) :
          Entry(body, n)[1].word_count < minWords(q.word_limit)

\* submissionData.taskN (lines 973-989): set only for a task with content
\* whose answer_text is truthy.
submissionDataTask(body, n) ==
    IF hasTaskContent(body, n) /\ Entry(body, n)[1].answer_text # ""
    THEN Some([answer |-> Entry(body, n)[1].answer_text,
               wordCount |-> Entry(body, n)[1].word_count])
    ELSE None

submissionData(body) ==
    [task1 |-> submissionDataTask(body, 1), task2 |-> submissionDataTask(body, 2)]

NoEvaluation == [task1 |-> None, task2 |-> None]

\* existingAiEval?.taskN || null
existingEval(existing, n) ==
    IF existing = None THEN None ELSE RowEval(existing[1], n)

\* finalEvaluation (lines 1004-1007).
finalEvaluation(body, existing, newEvaluation) ==
    [task1 |-> IF hasTaskContent(body, 1) THEN newEvaluation.task1
               ELSE existingEval(existing, 1),
     task2 |-> IF hasTaskContent(body, 2) THEN newEvaluation.task2
               ELSE existingEval(existing, 2)]

\* finalEvaluation.taskN?.overall_band || null
bandOf(evaluation) ==
    IF evaluation # None /\ evaluation[1].overall_band # 0
    THEN Some(evaluation[1].overall_band) ELSE None

overallBand(evaluation) ==
    calculateAverageBand(bandOf(evaluation.task1), bandOf(evaluation.task2))

\* finalTaskNAnswer (lines 1015, 1017).
finalAnswer(body, existing, n) ==
    IF hasTaskContent(body, n) THEN Some(Entry(body, n)[1].answer_text)
    ELSE IF existingTask(body, existing, n) # None
              /\ existingTask(body, existing, n)[1].answer_text # ""
         THEN Some(existingTask(body, existing, n)[1].answer_text)
         ELSE None

\* finalTaskNWordCount (lines 1016, 1018).
finalWordCount(body, existing, n) ==
    IF hasTaskContent(body, n) THEN Some(Entry(body, n)[1].word_count)
    ELSE IF existingTask(body, existing, n) # None
              /\ TruthyNum(existingTask(body, existing, n)[1].word_count)
         THEN existingTask(body, existing, n)[1].word_count
         ELSE None

\* writing_submissions.findFirst({user_id, test_id}): no orderBy, so any
\* matching row may be the one returned; null when there is none.
findFirstSubmission(user, test_id) ==
    LET matching == {r \in Rows(submissions) :
                        r.user_id = user /\ r.test_id = test_id}
    IN  IF matching = {} THEN {None} ELSE {Some(r) : r \in matching}

Rejection(code, message) == [status |-> code, message |-> message]
Accepted == Rejection(0, "")

\* The error the handler answers with after its two reads (lines 903-968),
\* Accepted when the request passes every check.
submitRejection(body, existing) ==
    IF body.test_id \notin DOMAIN writing_questions
    THEN Rejection(404, "Test not found")
    ELSE IF ~hasFinalTask(body, existing, 1) /\ ~hasFinalTask(body, existing, 2)
    THEN Rejection(400, "At least one task must be completed. Both tasks cannot be empty.")
    ELSE IF tooShort(body, 1)
    THEN Rejection(400, "Task 1 has too few words")
    ELSE IF tooShort(body, 2)
    THEN Rejection(400, "Task 2 has too few words")
    ELSE Accepted

needsEvaluation_always(body) == TRUE

\* Object.keys(submissionData).length > 0
needsEvaluation(body) ==
    submissionData(body).task1 # None \/ submissionData(body).task2 # None

submissionFields_keepsScore(row, body, existing, newEvaluation, time_taken) ==
    [row EXCEPT
        !.task1_answer = finalAnswer(body, existing, 1),
        !.task1_word_count = finalWordCount(body, existing, 1),
        !.task2_answer = finalAnswer(body, existing, 2),
        !.task2_word_count = finalWordCount(body, existing, 2),
        !.time_taken = time_taken,
        !.ai_evaluation = finalEvaluation(body, existing, newEvaluation)]

\* The data of the update and of the create (lines 1026-1035, 1041-1053).
submissionFields(row, body, existing, newEvaluation, time_taken) ==
    [row EXCEPT
        !.task1_answer = finalAnswer(body, existing, 1),
        !.task1_word_count = finalWordCount(body, existing, 1),
        !.task2_answer = finalAnswer(body, existing, 2),
        !.task2_word_count = finalWordCount(body, existing, 2),
        !.time_taken = time_taken,
        !.ai_evaluation = finalEvaluation(body, existing, newEvaluation),
        !.overall_band_score =
            overallBand(finalEvaluation(body, existing, newEvaluation))]

newSubmission(id, user, test_id) ==
    [id |-> id, user_id |-> user, test_id |-> test_id,
     task1_answer |-> None, task1_word_count |-> None,
     task2_answer |-> None, task2_word_count |-> None,
     time_taken |-> 0, ai_evaluation |-> NoEvaluation,
     overall_band_score |-> 0,
     expert_score |-> None, expert_feedback_sent |-> FALSE]

\* The handler of request p goes on to its next await.
Continue(p, proc) ==
    /\ procs' = [procs EXCEPT ![p] = proc]
    /\ response' = response

\* The request arrives (authenticate has set req.user); the checks of the
\* body (lines 873-883) and the first query is sent.
SubmitReceived(p) ==
    /\ \E user \in UserIds, test_id \in RequestTestIds,
          t1 \in TaskEntries, t2 \in TaskEntries, tt \in TimesTaken :
          IF test_id = 0
          THEN Respond(p, "submitWritingTest", 400, "Invalid submission data")
          ELSE Continue(p,
                 [pc |-> "read", op |-> "submitWritingTest", user |-> user,
                  body |-> [test_id |-> test_id, task1 |-> t1, task2 |-> t2,
                            time_taken |-> tt],
                  local |-> NoLocal])
    /\ nreq' = nreq + 1
    /\ UNCHANGED <<sideVars, dbVars>>

\* One handler of submitWritingTest at a time.
SubmitArrive(p) == SubmitArrives(p) /\ SubmitReceived(p)

\* Nothing in the handler or the router keeps a second request from
\* arriving while a first one is between two awaits.
SubmitArriveOverlapping(p) ==
    /\ nreq < MaxOverlapping
    /\ Arrives(p)
    /\ SubmitReceived(p)

\* The reads of the stored submission and of the test are answered; the
\* handler validates, merges with the stored tasks and goes on to the call
\* of the evaluator or to its write (lines 885-993).
SubmitRead(p) ==
    /\ procs[p].pc = "read"
    /\ \E existing \in findFirstSubmission(procs[p].user, procs[p].body.test_id) :
          IF submitRejection(procs[p].body, existing) # Accepted
          THEN Respond(p, "submitWritingTest",
                       submitRejection(procs[p].body, existing).status,
                       submitRejection(procs[p].body, existing).message)
          ELSE Continue(p,
                 [procs[p] EXCEPT
                    !.pc = IF needsEvaluation(procs[p].body)
                           THEN "evaluate" ELSE "write",
                    !.local = [existing |-> existing,
                               newEvaluation |-> NoEvaluation]])
    /\ UNCHANGED <<sideVars, dbVars, nreq>>

\* What the evaluator returns for one task on success (services/openaiService.js):
\* the model's evaluation of a task that was sent, the zero-band placeholder
\* for a task that was not.
evaluations(data, n) ==
    LET sent == IF n = 1 THEN data.task1 ELSE data.task2
    IN  IF sent # None
        THEN {Some([overall_band |-> b, by |-> "ai",
                    answer |-> sent[1].answer]) : b \in AIBands}
        ELSE {Some([overall_band |-> 0, by |-> "placeholder",
                    answer |-> ""])}

\* await evaluateWritingTest(submissionData), success.
SubmitEvaluate(p) ==
    /\ procs[p].pc = "evaluate"
    /\ \E e1 \in evaluations(submissionData(procs[p].body), 1),
          e2 \in evaluations(submissionData(procs[p].body), 2) :
          Continue(p, [procs[p] EXCEPT !.pc = "write",
                                       !.local.newEvaluation =
                                            [task1 |-> e1, task2 |-> e2]])
    /\ UNCHANGED <<sideVars, dbVars, nreq>>

SubmitEvaluateFails_savesAnswers(p) ==
    LET body == procs[p].body
        existing == procs[p].local.existing
    IN  /\ procs[p].pc = "evaluate"
        /\ IF existing # None
           THEN submissions' = [submissions EXCEPT ![existing[1].id] =
                    submissionFields(@, body, existing, NoEvaluation,
                        existing[1].time_taken + body.time_taken)]
           ELSE /\ Len(submissions) < MaxSubs
                /\ submissions' = Append(submissions,
                       submissionFields(
                           newSubmission(Len(submissions) + 1,
                                         procs[p].user, body.test_id),
                           body, existing, NoEvaluation, body.time_taken))
        /\ Respond(p, "submitWritingTest", 500, "Failed to evaluate test")
        /\ UNCHANGED <<sideVars, reviewRequests, nreq>>

\* await evaluateWritingTest(submissionData), the provider call throws:
\* { success: false } and the handler answers 500 (lines 996-998).
SubmitEvaluateFails(p) ==
    /\ procs[p].pc = "evaluate"
    /\ Respond(p, "submitWritingTest", 500, "Failed to evaluate test")
    /\ UNCHANGED <<sideVars, dbVars, nreq>>

SubmitWrite_versionChecked(p) ==
    LET body == procs[p].body
        existing == procs[p].local.existing
        newEvaluation == procs[p].local.newEvaluation
    IN  /\ procs[p].pc = "write"
        /\ IF existing # None /\ submissions[existing[1].id] # existing[1]
           THEN /\ submissions' = submissions
                /\ Respond(p, "submitWritingTest", 409, "Submission has changed")
           ELSE /\ IF existing # None
                   THEN submissions' = [submissions EXCEPT ![existing[1].id] =
                            submissionFields(@, body, existing, newEvaluation,
                                existing[1].time_taken + body.time_taken)]
                   ELSE /\ Len(submissions) < MaxSubs
                        /\ submissions' = Append(submissions,
                               submissionFields(
                                   newSubmission(Len(submissions) + 1,
                                                 procs[p].user, body.test_id),
                                   body, existing, newEvaluation, body.time_taken))
                /\ Respond(p, "submitWritingTest", 200,
                           "Test submitted successfully")
        /\ UNCHANGED <<sideVars, reviewRequests, nreq>>

\* writing_submissions.update of the row read at the start, or create.
SubmitWrite(p) ==
    LET body == procs[p].body
        existing == procs[p].local.existing
        newEvaluation == procs[p].local.newEvaluation
    IN  /\ procs[p].pc = "write"
        /\ IF existing # None
           THEN submissions' = [submissions EXCEPT ![existing[1].id] =
                    submissionFields(@, body, existing, newEvaluation,
                        existing[1].time_taken + body.time_taken)]
           ELSE /\ Len(submissions) < MaxSubs
                /\ submissions' = Append(submissions,
                       submissionFields(
                           newSubmission(Len(submissions) + 1,
                                         procs[p].user, body.test_id),
                           body, existing, newEvaluation, body.time_taken))
        /\ Respond(p, "submitWritingTest", 200, "Test submitted successfully")
        /\ UNCHANGED <<sideVars, reviewRequests, nreq>>

----------------------------------------------------------------------------
(* Responses (utils/response.js, server.js) and routes (routes/*.js)       *)

\* What a handler passes to error(): an Error object, or a plain string.
Error(message) == [isErrorObject |-> TRUE, message |-> message]
Text(message) == [isErrorObject |-> FALSE, message |-> message]

\* process.env.NODE_ENV: "" when it is not set.
Environments == {"development", "production", ""}

error_alwaysFullError(err, code) ==
    [status |-> code, success |-> FALSE, message |-> err.message,
     fullError |-> err.isErrorObject]

\* error(res, error, code): the envelope sent; fullError (name, message and
\* stack) is added in development for an Error object.
error(err, code) ==
    [status |-> code, success |-> FALSE, message |-> err.message,
     fullError |-> NODE_ENV = "development" /\ err.isErrorObject]

\* The global error handler of server.js for an error without a status:
\* 500, the message, and the stack in development.
globalErrorHandler(err) ==
    [status |-> 500, success |-> FALSE, message |-> err.message,
     fullError |-> NODE_ENV = "development"]

\* success(res, data, message): code 200.
success(message) ==
    [status |-> 200, success |-> TRUE, message |-> message, fullError |-> FALSE]

\* The role names of utils/roleHelper.js, and one more spelling.
ROLES == [ADMIN |-> "Admin", USER |-> "User"]
RoleNames == {ROLES.ADMIN, ROLES.USER, "admin"}

Middleware(mw, roles) == [mw |-> mw, roles |-> roles]

\* The middleware in front of each handler, as the routers declare it.
routes ==
    [user_index |-> <<Middleware("authenticate", <<>>), Middleware("isAdmin", <<>>)>>,
     user_create |-> <<Middleware("authenticate", <<>>), Middleware("isAdmin", <<>>)>>,
     user_store |-> <<Middleware("authenticate", <<>>), Middleware("isAdmin", <<>>)>>,
     user_edit |-> <<Middleware("authenticate", <<>>), Middleware("isAdmin", <<>>)>>,
     user_update |-> <<Middleware("authenticate", <<>>), Middleware("isAdmin", <<>>)>>,
     user_delete |-> <<Middleware("authenticate", <<>>), Middleware("isAdmin", <<>>)>>,
     user_profile |-> <<Middleware("authenticate", <<>>)>>,
     user_profile_put |->
         <<Middleware("authenticate", <<>>), Middleware("isOwnerOrAdmin", <<>>)>>,
     tests_list |-> <<Middleware("optionalAuth", <<>>)>>,
     tests_create |-> <<Middleware("authenticate", <<>>), Middleware("isAdmin", <<>>)>>,
     tests_update |-> <<Middleware("authenticate", <<>>), Middleware("isAdmin", <<>>)>>,
     tests_delete |-> <<Middleware("authenticate", <<>>), Middleware("isAdmin", <<>>)>>,
     writing_academic |-> <<Middleware("optionalAuth", <<>>)>>,
     writing_submit |-> <<Middleware("authenticate", <<>>)>>,
     writing_submission |-> <<Middleware("authenticate", <<>>)>>,
     review_request |-> <<Middleware("authenticate", <<>>)>>,
     review_details |-> <<Middleware("authenticate", <<>>)>>,
     review_check |-> <<Middleware("authenticate", <<>>)>>,
     review_admin_all |-> <<Middleware("authenticate", <<>>)>>,
     review_admin_details |-> <<Middleware("authenticate", <<>>)>>,
     review_admin_submit |-> <<Middleware("authenticate", <<>>)>>,
     review_admin_status |-> <<Middleware("authenticate", <<>>)>>]

\* The routes whose requests the middleware model follows.
ChainRoutes ==
    {"user_index", "user_store", "user_update", "user_delete",
     "user_profile", "user_profile_put", "tests_list", "tests_create",
     "tests_update", "tests_delete"}

\* :id of the path, or user_id of the body: 0 is a value that is not a number.
ParamIds == 0..(NumUsers + 1)

NoRoute == [name |-> "none", stack |-> <<>>, id |-> 0]

Route(name, id) == [name |-> name, stack |-> routes[name], id |-> id]

\* The routes whose handler or guard reads :id or user_id.
RoutesWithId == {"user_update", "user_delete", "user_profile_put"}

RoutesThrough(mw) ==
    {Route(name, id) : name \in {n \in ChainRoutes : routes[n][1].mw = mw},
                       id \in ParamIds} \ 
    {Route(name, id) : name \in ChainRoutes \ RoutesWithId, id \in ParamIds \ {0}}

----------------------------------------------------------------------------
(* authenticate and optionalAuth (middleware/auth.js), the writes to users *)

Absent == "absent"

\* users.status as stored: "1" is an active account.
Statuses == {"1", "0"}

\* The id a token can carry: a user id, or the id of a user there never was.
TokenIds == 1..(NumUsers + 1)

\* A token as jwt.verify sees it: not a JWT at all, or a signed payload with
\* its signature (made with JWT_SECRET or not) and its expiry.
Tokens ==
    {[form |-> "garbage", signed |-> FALSE, expired |-> FALSE, id |-> 0]}
    \cup [form : {"jwt"}, signed : BOOLEAN, expired : BOOLEAN, id : TokenIds]

\* The Authorization header: none, or a scheme and a token.
Headers == {None} \cup {Some([scheme |-> sc, token |-> t]) :
                            sc \in {"Basic", "Bearer"}, t \in Tokens}

\* jwt.verify(token, JWT_SECRET): the name of the error it throws, or "" when
\* it returns the payload.  The signature is checked before the expiry.
jwtVerify(token) ==
    IF token.form # "jwt" \/ ~token.signed THEN "JsonWebTokenError"
    ELSE IF token.expired THEN "TokenExpiredError"
    ELSE ""

NoUser == [id |-> 0, status |-> Absent]

\* pc "handler": the first middleware of the route has called next().
NoAuth ==
    [pc |-> "idle", route |-> NoRoute, header |-> None, user |-> NoUser,
     reqUser |-> None, status |-> 0, success |-> FALSE, message |-> "",
     fullError |-> FALSE]

\* The response is sent and the chain ends: next is not called.
Answer(record, pc, envelope) ==
    auth' = [record EXCEPT !.pc = pc, !.status = envelope.status,
                           !.success = envelope.success,
                           !.message = envelope.message,
                           !.fullError = envelope.fullError]

\* error(res, new Error(message), code) by authenticate.
AuthAnswer(record, code, message) ==
    Answer(record, "answered", error(Error(message), code))

\* model_has_roles joined with roles, for one user.
userRoleNames(id) ==
    {row.role : row \in {r \in Rows(model_has_roles) : r.model_id = id}}

\* No request is inside a middleware: the next one can be followed.
ChainFree == auth.pc \in {"idle", "answered", "handler", "refused", "run", "ran"}

\* A request arrives at a route guarded by authenticate: the header check and
\* jwt.verify (lines 627-640, 681-686), then the query for the user is sent.
AuthArrive ==
    /\ ChainFree
    /\ \E header \in Headers, route \in RoutesThrough("authenticate") :
        LET record == [NoAuth EXCEPT !.header = header, !.route = route]
        IN  IF header = None \/ header[1].scheme # "Bearer"
            THEN AuthAnswer(record, 401, "No token provided")
            ELSE IF jwtVerify(header[1].token) = "JsonWebTokenError"
            THEN AuthAnswer(record, 401, "Invalid token")
            ELSE IF jwtVerify(header[1].token) = "TokenExpiredError"
            THEN AuthAnswer(record, 401, "Token expired")
            ELSE auth' = [record EXCEPT !.pc = "find_user"]
    /\ UNCHANGED <<chainRest, users>>

userActive_anyStatus(user) == TRUE

\* user.status !== "1" (line 651)
userActive(user) == user.status = "1"

\* users.findUnique({ id: decoded.id }): the row, NoUser when there is none.
findUser(id) ==
    IF id \in DOMAIN users /\ users[id] # Absent
    THEN [id |-> id, status |-> users[id]]
    ELSE NoUser

\* users.findUnique is answered: 404 for no row, 403 for an inactive account
\* (lines 643-653), then the query for the roles is sent.
AuthFindUser ==
    /\ auth.pc = "find_user"
    /\ LET user == findUser(auth.header[1].token.id)
       IN  IF user = NoUser
           THEN AuthAnswer(auth, 404, "User not found")
           ELSE IF ~userActive(user)
           THEN AuthAnswer([auth EXCEPT !.user = user], 403,
                           "User account is inactive")
           ELSE auth' = [auth EXCEPT !.pc = "find_roles", !.user = user]
    /\ UNCHANGED <<chainRest, users>>

\* model_has_roles.findMany is answered: req.user is attached and next() is
\* called (lines 656-679).
AuthFindRoles ==
    /\ auth.pc = "find_roles"
    /\ auth' = [auth EXCEPT
                  !.pc = "handler",
                  !.reqUser = Some([id |-> auth.user.id,
                                    roles |-> userRoleNames(auth.user.id),
                                    isAdmin |-> "admin" \in userRoleNames(auth.user.id)])]
    /\ UNCHANGED <<chainRest, users>>

\* users.update of the admin handler update: status: String(status)
\* (controllers/userController.js, lines 236-248).
UserUpdate ==
    /\ \E id \in UserIds, status \in Statuses :
          /\ users[id] # Absent
          /\ users' = [users EXCEPT ![id] = status]
    /\ UNCHANGED <<chainRest, auth>>

\* users.delete of the admin handler deleteUser (lines 264-266).
UserDelete ==
    /\ \E id \in UserIds :
          /\ users[id] # Absent
          /\ users' = [users EXCEPT ![id] = Absent]
    /\ UNCHANGED <<chainRest, auth>>

\* optionalAuth calls next() without having attached a user.
OptionalNext(record) == auth' = [record EXCEPT !.pc = "handler"]

\* A request arrives at a route behind optionalAuth: without a Bearer token
\* next() is called at once; jwt.verify throws into the catch block, which
\* calls next(); otherwise the query for the user is sent (lines 809-820, 847).
OptionalArrive ==
    /\ ChainFree
    /\ \E header \in Headers, route \in RoutesThrough("optionalAuth") :
        LET record == [NoAuth EXCEPT !.header = header, !.route = route]
        IN  IF header = None \/ header[1].scheme # "Bearer"
            THEN OptionalNext(record)
            ELSE IF jwtVerify(header[1].token) # ""
            THEN OptionalNext(record)
            ELSE auth' = [record EXCEPT !.pc = "optional_find_user"]
    /\ UNCHANGED <<chainRest, users>>

optionalUser_anyStatus(user) == user # NoUser

\* user && user.status === "1" (line 822)
optionalUser(user) == user # NoUser /\ user.status = "1"

\* users.findUnique is answered: if (user && user.status === "1") the roles
\* are queried, otherwise next() is called (lines 822, 845).
OptionalFindUser ==
    /\ auth.pc = "optional_find_user"
    /\ LET user == findUser(auth.header[1].token.id)
       IN  IF optionalUser(user)
           THEN auth' = [auth EXCEPT !.pc = "optional_find_roles", !.user = user]
           ELSE OptionalNext([auth EXCEPT !.user = user])
    /\ UNCHANGED <<chainRest, users>>

\* model_has_roles.findMany is answered: req.user is attached and next() is
\* called (lines 824-845).
OptionalFindRoles ==
    /\ auth.pc = "optional_find_roles"
    /\ auth' = [auth EXCEPT
                  !.pc = "handler",
                  !.reqUser = Some([id |-> auth.user.id,
                                    roles |-> userRoleNames(auth.user.id),
                                    isAdmin |-> "Admin" \in userRoleNames(auth.user.id)])]
    /\ UNCHANGED <<chainRest, users>>

----------------------------------------------------------------------------
(* hasRole, hasAllRoles, isAdmin, isOwnerOrAdmin (middleware/auth.js)      *)

AuthenticationRequired ==
    Rejection(401, "Authentication required. Use authenticate middleware first.")

hasRole_allOf(roles, reqUser) ==
    IF reqUser = None THEN AuthenticationRequired
    ELSE IF ~(\A i \in 1..Len(roles) : roles[i] \in reqUser[1].roles)
    THEN Rejection(403, "Insufficient permissions. Required role(s)")
    ELSE Accepted

\* hasRole(...roles): requiredRoles.some(role => userRoles.includes(role)).
hasRole(roles, reqUser) ==
    IF reqUser = None THEN AuthenticationRequired
    ELSE IF ~(\E i \in 1..Len(roles) : roles[i] \in reqUser[1].roles)
    THEN Rejection(403, "Insufficient permissions. Required role(s)")
    ELSE Accepted

\* hasAllRoles(...roles): requiredRoles.every(role => userRoles.includes(role)).
hasAllRoles(roles, reqUser) ==
    IF reqUser = None THEN AuthenticationRequired
    ELSE IF ~(\A i \in 1..Len(roles) : roles[i] \in reqUser[1].roles)
    THEN Rejection(403, "Insufficient permissions. Required all roles")
    ELSE Accepted

isAdmin_anyRole(reqUser) == hasRole(<<"Admin", "User">>, reqUser)

\* isAdmin: hasRole("Admin").
isAdmin(reqUser) == hasRole(<<"Admin">>, reqUser)

\* isOwnerOrAdmin(userIdField): BigInt() of a value that is not a number
\* throws, which Express hands to the global error handler.
isOwnerOrAdmin(id, reqUser) ==
    IF reqUser = None THEN AuthenticationRequired
    ELSE IF id = 0 THEN Rejection(500, "Cannot convert to a BigInt")
    ELSE IF id # reqUser[1].id /\ ~reqUser[1].isAdmin
    THEN Rejection(403, "You can only access your own resources")
    ELSE Accepted

\* The verdict of the second middleware of the route.
guardVerdict(route, reqUser) ==
    LET guard == route.stack[2]
    IN  CASE guard.mw = "hasRole" -> hasRole(guard.roles, reqUser)
          [] guard.mw = "hasAllRoles" -> hasAllRoles(guard.roles, reqUser)
          [] guard.mw = "isAdmin" -> isAdmin(reqUser)
          [] guard.mw = "isOwnerOrAdmin" -> isOwnerOrAdmin(route.id, reqUser)

\* Express calls the second middleware of the route: it answers with an
\* error, throws, or calls next().
RouteGuard ==
    /\ auth.pc = "handler"
    /\ Len(auth.route.stack) = 2
    /\ LET verdict == guardVerdict(auth.route, auth.reqUser)
       IN  IF verdict = Accepted
           THEN auth' = [auth EXCEPT !.pc = "run"]
           ELSE IF verdict.status = 500
           THEN Answer(auth, "refused", globalErrorHandler(Error(verdict.message)))
           ELSE Answer(auth, "refused",
                       error(Error(verdict.message), verdict.status))
    /\ UNCHANGED <<chainRest, users>>

\* Express has reached the handler of the route.
Reached(names) ==
    /\ auth.route.name \in names
    /\ \/ auth.pc = "run"
       \/ auth.pc = "handler" /\ Len(auth.route.stack) = 1

\* update (controllers/userController.js, lines 223-257): BigInt(user_id) or
\* users.update of a row that is not there throws into the catch block.
HandlerUpdate ==
    /\ Reached({"user_update"})
    /\ \E status \in Statuses :
          IF auth.route.id \in UserIds /\ users[auth.route.id] # Absent
          THEN /\ users' = [users EXCEPT ![auth.route.id] = status]
               /\ Answer(auth, "ran", success("User updated successfully"))
          ELSE /\ users' = users
               /\ Answer(auth, "ran", error(Text("Failed to update user"), 500))
    /\ UNCHANGED chainRest

\* deleteUser (lines 260-273).
HandlerDeleteUser ==
    /\ Reached({"user_delete"})
    /\ IF auth.route.id \in UserIds /\ users[auth.route.id] # Absent
       THEN /\ users' = [users EXCEPT ![auth.route.id] = Absent]
            /\ Answer(auth, "ran", success("User deleted successfully"))
       ELSE /\ users' = users
            /\ Answer(auth, "ran", error(Text("Failed to delete user"), 500))
    /\ UNCHANGED chainRest

\* The handlers whose writes are to tables the model does not hold (index,
\* store, getTests, createTest, updateTest, deleteTest) and the inline
\* handlers of the profile routes: the query succeeds, or it throws into the
\* catch block.
HandlerOther ==
    /\ Reached(ChainRoutes \ {"user_update", "user_delete"})
    /\ \/ Answer(auth, "ran", success("Success"))
       \/ /\ auth.route.name \notin {"user_profile", "user_profile_put"}
          /\ Answer(auth, "ran", error(Text("Failed"), 500))
    /\ UNCHANGED <<chainRest, users>>

----------------------------------------------------------------------------
(* Expert review (controllers/takeTest/expertReviewController.js)          *)

\* submission_id / requestId as sent by the client: 0 is a missing id, the
\* largest one is never the id of a row.
RequestIds == 0..(MaxSubs + 1)

validStatuses == {"pending", "in_progress", "completed", "rejected"}

\* status as sent by the client: absent, a valid one, or anything else.
StatusInputs == {None} \cup {Some(st) : st \in validStatuses \cup {"archived"}}

\* expert_overall_score as sent by the client (absent or 6.5).
ScoreInputs == {None, Some(78)}

RequestsOf(submission_id) ==
    {r \in Rows(reviewRequests) : r.submission_id = submission_id}

submissionIdUnique_noIndex(table, row) == TRUE

\* The schema declares expert_review_requests.submission_id unique: an insert
\* of a second row for the same submission is refused by the database.
submissionIdUnique(table, row) ==
    \A r \in Rows(table) : r.submission_id # row.submission_id

\* The users whose requests reach the handler of a route: every route of
\* the handlers below is behind authenticate alone, which lets every user
\* with a token through.
Callers(route) ==
    {user \in UserIds :
        \/ Len(routes[route]) = 1
        \/ isAdmin(Some([id |-> user, roles |-> userRoleNames(user),
                         isAdmin |-> FALSE])) = Accepted}

isOwner_anyone(row, user) == TRUE

\* row.user_id.toString() !== userId.toString()
isOwner(row, user) == row.user_id = user

\* What a handler answers after findUnique of a row by id: 404 when there is
\* none, 403 when it is not the user's, Accepted otherwise.
ownRowRejection(table, id, user, missing) ==
    IF id > Len(table) THEN Rejection(404, missing)
    ELSE IF ~isOwner(table[id], user) THEN Rejection(403, "Unauthorized access")
    ELSE Accepted

\* A request with the id of a row arrives (authenticate has set req.user)
\* and the handler sends its first query.
ArriveWithId(p, op, route, field) ==
    /\ Arrives(p)
    /\ \E user \in Callers(route), id \in RequestIds \ {0} :
          Continue(p, [pc |-> "find", op |-> op, user |-> user,
                       body |-> [f \in {field} |-> id], local |-> NoLocal])
    /\ nreq' = nreq + 1
    /\ UNCHANGED <<sideVars, dbVars>>

\* requestExpertReview: the request arrives (lines 9-18).
RequestReviewArrive(p) ==
    /\ Arrives(p)
    /\ \E user \in Callers("review_request"), submission_id \in RequestIds :
          IF submission_id = 0
          THEN Respond(p, "requestExpertReview", 400, "Submission ID is required")
          ELSE Continue(p,
                 [pc |-> "find", op |-> "requestExpertReview", user |-> user,
                  body |-> [submission_id |-> submission_id],
                  local |-> NoLocal])
    /\ nreq' = nreq + 1
    /\ UNCHANGED <<sideVars, dbVars>>

\* findUnique of the submission is answered; the ownership check
\* (lines 20-31).
RequestReviewRead(p) ==
    LET verdict == ownRowRejection(submissions, procs[p].body.submission_id,
                                   procs[p].user, "Submission not found")
    IN  /\ procs[p].pc = "find"
        /\ procs[p].op = "requestExpertReview"
        /\ IF verdict # Accepted
           THEN Respond(p, "requestExpertReview", verdict.status, verdict.message)
           ELSE Continue(p, [procs[p] EXCEPT !.pc = "check"])
        /\ UNCHANGED <<sideVars, dbVars, nreq>>

\* findUnique of a request for the submission (lines 33-40).
RequestReviewCheck(p) ==
    /\ procs[p].pc = "check"
    /\ IF RequestsOf(procs[p].body.submission_id) # {}
       THEN Respond(p, "requestExpertReview", 409,
                    "Expert review already requested for this test")
       ELSE Continue(p, [procs[p] EXCEPT !.pc = "create"])
    /\ UNCHANGED <<sideVars, dbVars, nreq>>

newReviewRequest(id, submission_id, user) ==
    [id |-> id, submission_id |-> submission_id, user_id |-> user,
     status |-> "pending", reviewed_at |-> FALSE]

\* expert_review_requests.create (lines 42-52); a refused insert throws and
\* the catch block answers 500.
RequestReviewCreate(p) ==
    LET row == newReviewRequest(Len(reviewRequests) + 1,
                                procs[p].body.submission_id, procs[p].user)
    IN  /\ procs[p].pc = "create"
        /\ IF submissionIdUnique(reviewRequests, row)
           THEN /\ reviewRequests' = Append(reviewRequests, row)
                /\ Respond(p, "requestExpertReview", 200,
                           "Expert review requested successfully")
           ELSE /\ reviewRequests' = reviewRequests
                /\ Respond(p, "requestExpertReview", 500,
                           "Unique constraint failed")
        /\ UNCHANGED <<sideVars, submissions, nreq>>

\* getSubmissionDetails (controllers/takeTest/writingTestController.js,
\* lines 509-568): the request arrives.
GetSubmissionDetailsArrive(p) ==
    ArriveWithId(p, "getSubmissionDetails", "writing_submission", "submission_id")

\* findUnique of the submission is answered: 404, 403, or the submission.
GetSubmissionDetailsRead(p) ==
    LET verdict == ownRowRejection(submissions, procs[p].body.submission_id,
                                   procs[p].user, "Submission not found")
    IN  /\ procs[p].pc = "find"
        /\ procs[p].op = "getSubmissionDetails"
        /\ IF verdict # Accepted
           THEN Respond(p, "getSubmissionDetails", verdict.status, verdict.message)
           ELSE Respond(p, "getSubmissionDetails", 200,
                        "Submission details fetched successfully")
        /\ UNCHANGED <<sideVars, dbVars, nreq>>

\* getReviewRequestDetails (lines 148-207): the request arrives.
GetReviewRequestDetailsArrive(p) ==
    ArriveWithId(p, "getReviewRequestDetails", "review_details", "requestId")

\* findUnique of the review request is answered: 404, 403, or the request.
GetReviewRequestDetailsRead(p) ==
    LET verdict == ownRowRejection(reviewRequests, procs[p].body.requestId,
                                   procs[p].user, "Review request not found")
    IN  /\ procs[p].pc = "find"
        /\ procs[p].op = "getReviewRequestDetails"
        /\ IF verdict # Accepted
           THEN Respond(p, "getReviewRequestDetails", verdict.status,
                        verdict.message)
           ELSE Respond(p, "getReviewRequestDetails", 200,
                        "Review request details fetched successfully")
        /\ UNCHANGED <<sideVars, dbVars, nreq>>

\* checkExpertReviewStatus (lines 210-260): the request arrives.
CheckStatusArrive(p) ==
    ArriveWithId(p, "checkExpertReviewStatus", "review_check", "submission_id")

\* findUnique of the submission is answered; the ownership check
\* (lines 220-230).
CheckStatusRead(p) ==
    LET verdict == ownRowRejection(submissions, procs[p].body.submission_id,
                                   procs[p].user, "Submission not found")
    IN  /\ procs[p].pc = "find"
        /\ procs[p].op = "checkExpertReviewStatus"
        /\ IF verdict # Accepted
           THEN Respond(p, "checkExpertReviewStatus", verdict.status,
                        verdict.message)
           ELSE Continue(p, [procs[p] EXCEPT !.pc = "find_request"])
        /\ UNCHANGED <<sideVars, dbVars, nreq>>

\* findUnique of the review request of the submission is answered
\* (lines 233-249).
CheckStatusAnswer(p) ==
    /\ procs[p].pc = "find_request"
    /\ IF RequestsOf(procs[p].body.submission_id) # {}
       THEN Respond(p, "checkExpertReviewStatus", 200, "Review request exists")
       ELSE Respond(p, "checkExpertReviewStatus", 200, "No review request found")
    /\ UNCHANGED <<sideVars, dbVars, nreq>>

\* submitExpertReview: the request arrives, validation and findUnique of the
\* review request (lines 429-449).
ExpertReviewRead(p) ==
    /\ Arrives(p)
    /\ \E user \in Callers("review_admin_submit"), requestId \in RequestIds \ {0},
          expert_evaluation \in BOOLEAN, expert_overall_score \in ScoreInputs,
          status \in StatusInputs :
          IF ~expert_evaluation \/ ~TruthyNum(expert_overall_score)
          THEN Respond(p, "submitExpertReview", 400,
                       "Expert evaluation and overall score are required")
          ELSE IF requestId > Len(reviewRequests)
          THEN Respond(p, "submitExpertReview", 404, "Review request not found")
          ELSE Continue(p,
                 [pc |-> "expert_submission", op |-> "submitExpertReview",
                  user |-> user,
                  body |-> [requestId |-> requestId,
                            expert_overall_score |-> expert_overall_score,
                            status |-> status],
                  local |-> [reviewRequest |-> reviewRequests[requestId]]])
    /\ nreq' = nreq + 1
    /\ UNCHANGED <<sideVars, dbVars>>

\* writing_submissions.update with the expert review (lines 451-460).
ExpertReviewUpdateSubmission(p) ==
    /\ procs[p].pc = "expert_submission"
    /\ submissions' =
          [submissions EXCEPT ![procs[p].local.reviewRequest.submission_id] =
              [@ EXCEPT !.expert_score = procs[p].body.expert_overall_score,
                        !.expert_feedback_sent = TRUE]]
    /\ Continue(p, [procs[p] EXCEPT !.pc = "expert_request"])
    /\ UNCHANGED <<sideVars, reviewRequests, nreq>>

\* expert_review_requests.update: status || 'completed', reviewed_at
\* (lines 462-471).
ExpertReviewUpdateRequest(p) ==
    /\ procs[p].pc = "expert_request"
    /\ reviewRequests' =
          [reviewRequests EXCEPT ![procs[p].body.requestId] =
              [@ EXCEPT !.status = IF procs[p].body.status # None
                                   THEN procs[p].body.status[1]
                                   ELSE "completed",
                        !.reviewed_at = TRUE]]
    /\ Respond(p, "submitExpertReview", 200,
               "Expert review submitted successfully")
    /\ UNCHANGED <<sideVars, submissions, nreq>>

\* updateReviewRequestStatus: the request arrives, validation and findUnique
\* (lines 497-515).
UpdateStatusRead(p) ==
    /\ Arrives(p)
    /\ \E user \in Callers("review_admin_status"), requestId \in RequestIds \ {0},
          status \in StatusInputs :
          IF status = None
          THEN Respond(p, "updateReviewRequestStatus", 400, "Status is required")
          ELSE IF status[1] \notin validStatuses
          THEN Respond(p, "updateReviewRequestStatus", 400, "Invalid status value")
          ELSE IF requestId > Len(reviewRequests)
          THEN Respond(p, "updateReviewRequestStatus", 404,
                       "Review request not found")
          ELSE Continue(p,
                 [pc |-> "status_update", op |-> "updateReviewRequestStatus",
                  user |-> user,
                  body |-> [requestId |-> requestId, status |-> status],
                  local |-> NoLocal])
    /\ nreq' = nreq + 1
    /\ UNCHANGED <<sideVars, dbVars>>

UpdateStatusWrite_statusOnly(p) ==
    /\ procs[p].pc = "status_update"
    /\ reviewRequests' =
          [reviewRequests EXCEPT ![procs[p].body.requestId] =
              [@ EXCEPT !.status = procs[p].body.status[1]]]
    /\ Respond(p, "updateReviewRequestStatus", 200,
               "Review request status updated successfully")
    /\ UNCHANGED <<sideVars, submissions, nreq>>

\* expert_review_requests.update with updateData (lines 517-531).
UpdateStatusWrite(p) ==
    /\ procs[p].pc = "status_update"
    /\ reviewRequests' =
          [reviewRequests EXCEPT ![procs[p].body.requestId] =
              [@ EXCEPT !.status = procs[p].body.status[1],
                        !.reviewed_at =
                            IF procs[p].body.status[1] \in {"completed", "rejected"}
                            THEN TRUE ELSE @]]
    /\ Respond(p, "updateReviewRequestStatus", 200,
               "Review request status updated successfully")
    /\ UNCHANGED <<sideVars, submissions, nreq>>

----------------------------------------------------------------------------
(* adminLogin (controllers/authController.js)                              *)

\* email as sent by the client: 0 is a missing email, a user id the email of
\* that user, the largest one the email of nobody.
Emails == 0..(NumUsers + 1)

\* password as sent by the client: missing, or one of two passwords.
Passwords == {None, Some("p"), Some("q")}

\* users.password as stored: none (an OAuth account), or a bcrypt hash of
\* "p" written by this application ($2a$, $2b$) or by Laravel ($2y$).
StoredPasswords ==
    {None} \cup {Some([version |-> v, of |-> "p"]) : v \in {"$2a$", "$2b$", "$2y$"}}

\* passwordHash.replace(/^\$2y\$/, '$2a$') (lines 54-58)
convertHash(hash) ==
    IF hash.version = "$2y$" THEN [hash EXCEPT !.version = "$2a$"] ELSE hash

bcryptCompare_anyPassword(password, hash) == hash.version \in {"$2a$", "$2b$"}

\* bcrypt.compare(password, passwordHash): the node library knows the
\* versions $2a$ and $2b$ only.
bcryptCompare(password, hash) ==
    hash.version \in {"$2a$", "$2b$"} /\ hash.of = password

\* getUserRoles(userId) (utils/roleHelper.js): the names of the user's roles,
\* or [] when the query throws.
getUserRoles(id) == {userRoleNames(id), {}}

NoLogin ==
    [pc |-> "idle", email |-> 0, password |-> None, user |-> NoUser,
     hash |-> None, roles |-> None, status |-> 0, message |-> "",
     token |-> None]

\* error(res, new Error(message), code): no data, no token.
LoginAnswer(record, code, message) ==
    login' = [record EXCEPT !.pc = "answered", !.status = code,
                            !.message = message, !.token = None]

loginRest ==
    <<bandVars, dbVars, reqVars, authVars, NODE_ENV, credentials, roleVars>>

\* The request arrives: the check of the body (lines 11-19), then the query
\* for the user is sent.
LoginArrive ==
    /\ login.pc \in {"idle", "answered"}
    /\ \E email \in Emails, password \in Passwords :
          LET record == [NoLogin EXCEPT !.email = email, !.password = password]
          IN  IF email = 0 \/ password = None
              THEN LoginAnswer(record, 400, "Email and password are required")
              ELSE login' = [record EXCEPT !.pc = "find_user"]
    /\ UNCHANGED loginRest

\* users.findFirst({ email }) is answered: 401 for no user, 403 for an
\* inactive account, 401 for an account without password (lines 22-52);
\* then the hash is converted and bcrypt.compare is called.
LoginFindUser ==
    /\ login.pc = "find_user"
    /\ LET user == findUser(login.email)
       IN  IF user = NoUser
           THEN LoginAnswer(login, 401, "Invalid email or password")
           ELSE IF user.status # "1"
           THEN LoginAnswer([login EXCEPT !.user = user], 403,
                            "Account is inactive")
           ELSE IF credentials[user.id] = None
           THEN LoginAnswer([login EXCEPT !.user = user], 401,
                            "This account uses OAuth login. Please use Google sign-in")
           ELSE login' = [login EXCEPT
                             !.pc = "compare", !.user = user,
                             !.hash = Some(convertHash(credentials[user.id][1]))]
    /\ UNCHANGED loginRest

\* users.findFirst throws: the catch block answers 500 (lines 115-118).
LoginFindUserFails ==
    /\ login.pc = "find_user"
    /\ LoginAnswer(login, 500, "Database error")
    /\ UNCHANGED loginRest

\* bcrypt.compare is answered (lines 61-65); then getUserRoles is called.
LoginCompare ==
    /\ login.pc = "compare"
    /\ IF ~bcryptCompare(login.password[1], login.hash[1])
       THEN LoginAnswer(login, 401, "Invalid email or password")
       ELSE login' = [login EXCEPT !.pc = "roles"]
    /\ UNCHANGED loginRest

\* getUserRoles is answered: 403 without the role Admin, else the token is
\* signed and sent (lines 67-114).  JWT_SECRET is set.
LoginRoles ==
    /\ login.pc = "roles"
    /\ \E roles \in getUserRoles(login.user.id) :
          IF ROLES.ADMIN \notin roles
          THEN LoginAnswer([login EXCEPT !.roles = Some(roles)], 403,
                           "Access denied. Admin privileges required")
          ELSE login' = [login EXCEPT
                            !.pc = "answered", !.status = 200,
                            !.roles = Some(roles),
                            !.message = "Login successful",
                            !.token = Some([id |-> login.user.id,
                                            roles |-> roles,
                                            isAdmin |-> TRUE,
                                            status |-> login.user.status])]
    /\ UNCHANGED loginRest

----------------------------------------------------------------------------
(* Roles and Google sign-in (utils/roleHelper.js, authController.js)       *)

\* A row of model_has_roles with model_type USER_MODEL_TYPE, joined with its
\* role.
RoleRow(id, role) == [model_id |-> id, role |-> role]

\* pc "done": the handler has returned or thrown.  sent is the response the
\* browser has received; threw tells that a later write to the response
\* threw ERR_HTTP_HEADERS_SENT.
NoGoogle ==
    [pc |-> "idle", email |-> 0, googleId |-> 0, branch |-> "none",
     user |-> 0, sent |-> None, threw |-> FALSE]
NoRoleCall ==
    [fn |-> "none", user |-> 0, role |-> "", threw |-> FALSE,
     success |-> FALSE, message |-> "", count |-> 0]

\* The database as seeded: both roles, user 1 with the role User, user 2
\* with the role Admin, accounts with a password login.
Seeded ==
    /\ roleTable = {ROLES.ADMIN, ROLES.USER}
    /\ model_has_roles = <<RoleRow(1, ROLES.USER), RoleRow(2, ROLES.ADMIN)>>
    /\ accounts = [u \in UserIds |->
                      [email |-> u, google_id |-> 0, auth_provider |-> "local"]]
    /\ google = NoGoogle
    /\ roleCall = NoRoleCall

\* req.user.googleId as set by passport: 0 is a missing one.
GoogleIds == 0..2

Json(code) == [kind |-> "json", status |-> code, target |-> ""]
Redirect(target) == [kind |-> "redirect", status |-> 302, target |-> target]

\* res.status(code).json(...) and res.redirect(...) set headers: the first
\* of them is sent, a later one throws ERR_HTTP_HEADERS_SENT.
send(record, answer) ==
    IF record.sent = None
    THEN [record EXCEPT !.sent = Some(answer)]
    ELSE [record EXCEPT !.threw = TRUE]

\* The catch block (lines 260-272): error(res, err, 500), which sends the
\* JSON envelope, then res.redirect to the sign-in page.
googleCatch(record) ==
    [send(send(record, Json(500)), Redirect("/signin?error"))
        EXCEPT !.pc = "done"]

googleRest ==
    <<bandVars, dbVars, reqVars, auth, NODE_ENV, login, roleTable, roleCall>>

\* The callback is called with req.user set by passport: the validation
\* (lines 124-137), whose error(res, ...) is followed by res.redirect inside
\* the try block; else the query by google_id is sent.
GoogleArrive ==
    /\ google.pc \in {"idle", "done"}
    /\ \E email \in Emails, googleId \in GoogleIds :
          LET record == [NoGoogle EXCEPT !.email = email, !.googleId = googleId]
          IN  IF email = 0 \/ googleId = 0
              THEN google' =
                      googleCatch(send(send(record, Json(400)),
                                       Redirect("/signin?error=invalid_user_data")))
              ELSE google' = [record EXCEPT !.pc = "find_google_id"]
    /\ UNCHANGED <<googleRest, users, credentials, accounts, model_has_roles>>

\* users.findFirst({ google_id }) is answered (lines 141-145).
GoogleFindByGoogleId ==
    /\ google.pc = "find_google_id"
    /\ LET found == {u \in UserIds : users[u] # Absent
                                     /\ accounts[u].google_id = google.googleId}
       IN  IF found # {}
           THEN \E u \in found :
                   google' = [google EXCEPT !.pc = "update_picture",
                                            !.branch = "update", !.user = u]
           ELSE google' = [google EXCEPT !.pc = "find_email"]
    /\ UNCHANGED <<googleRest, users, credentials, accounts, model_has_roles>>

\* users.findFirst({ email, auth_provider not google or null }) is answered
\* (lines 147-158).
GoogleFindByEmail ==
    /\ google.pc = "find_email"
    /\ LET found == {u \in UserIds : /\ users[u] # Absent
                                     /\ accounts[u].email = google.email
                                     /\ accounts[u].auth_provider # "google"}
       IN  IF found # {}
           THEN \E u \in found :
                   google' = [google EXCEPT !.pc = "link", !.branch = "link",
                                            !.user = u]
           ELSE google' = [google EXCEPT !.pc = "create", !.branch = "create"]
    /\ UNCHANGED <<googleRest, users, credentials, accounts, model_has_roles>>

\* users.update links the Google account to the user (lines 160-171).
GoogleLink ==
    /\ google.pc = "link"
    /\ accounts' = [accounts EXCEPT ![google.user].google_id = google.googleId,
                                    ![google.user].auth_provider = "google"]
    /\ google' = [google EXCEPT !.pc = "roles"]
    /\ UNCHANGED <<googleRest, users, credentials, model_has_roles>>

\* users.update of the profile picture (lines 212-219).
GoogleUpdatePicture ==
    /\ google.pc = "update_picture"
    /\ google' = [google EXCEPT !.pc = "roles"]
    /\ UNCHANGED <<googleRest, users, credentials, accounts, model_has_roles>>

\* prisma.$transaction (lines 173-209) commits: the user and its role
\* assignment are written together.
GoogleCreate ==
    /\ google.pc = "create"
    /\ ROLES.USER \in roleTable
    /\ \E id \in UserIds :
          /\ users[id] = Absent
          /\ \A u \in UserIds : u < id => users[u] # Absent
          /\ users' = [users EXCEPT ![id] = "1"]
          /\ credentials' = [credentials EXCEPT ![id] = None]
          /\ accounts' = [accounts EXCEPT ![id] =
                             [email |-> google.email,
                              google_id |-> google.googleId,
                              auth_provider |-> "google"]]
          /\ model_has_roles' = Append(model_has_roles, RoleRow(id, ROLES.USER))
          /\ google' = [google EXCEPT !.pc = "roles", !.user = id]
    /\ UNCHANGED googleRest

\* The transaction throws: the role User is not in roles, or a write is
\* refused.  It is rolled back and the catch block answers.
GoogleCreateFails ==
    /\ google.pc = "create"
    /\ google' = googleCatch(google)
    /\ UNCHANGED <<googleRest, users, credentials, accounts, model_has_roles>>

\* getUserRoles is answered, the token is signed and the browser is
\* redirected to the front end with it (lines 222-258).
GoogleRedirect ==
    /\ google.pc = "roles"
    /\ google' = [send(google, Redirect("/auth/callback?token"))
                     EXCEPT !.pc = "done"]
    /\ UNCHANGED <<googleRest, users, credentials, accounts, model_has_roles>>

\* roleName as passed by the caller: "Editor" is the name of no role.
RoleInputs == {ROLES.ADMIN, ROLES.USER, "Editor"}

\* More rows than users times roles.
MaxRoleRows == 5

existingRole_none(id, role) == FALSE

\* model_has_roles.findFirst({ model_id, model_type, role_id }) finds a row.
existingRole(id, role) == RoleRow(id, role) \in Rows(model_has_roles)

\* The return value of a call, or the error it throws.
RoleResult(fn, id, role, threw, ok, message, count) ==
    [fn |-> fn, user |-> id, role |-> role, threw |-> threw,
     success |-> ok, message |-> message, count |-> count]

roleRest ==
    <<bandVars, dbVars, reqVars, authVars, NODE_ENV, loginVars, roleTable,
      accounts, google>>

\* assignRoleToUser(userId, roleName) (lines 52-89), from call to return.
AssignRoleToUser ==
    /\ \E id \in UserIds, role \in RoleInputs :
          IF role \notin roleTable
          THEN /\ model_has_roles' = model_has_roles
               /\ roleCall' = RoleResult("assignRoleToUser", id, role, TRUE,
                                         FALSE, "Role not found", 0)
          ELSE IF existingRole(id, role)
          THEN /\ model_has_roles' = model_has_roles
               /\ roleCall' = RoleResult("assignRoleToUser", id, role, FALSE,
                                         FALSE, "User already has this role", 0)
          ELSE /\ Len(model_has_roles) < MaxRoleRows
               /\ model_has_roles' = Append(model_has_roles, RoleRow(id, role))
               /\ roleCall' = RoleResult("assignRoleToUser", id, role, FALSE,
                                         TRUE, "Role assigned successfully", 0)
    /\ UNCHANGED roleRest

\* model_has_roles.deleteMany({ model_id, model_type, role_id })
deleteMany(table, id, role) ==
    LET keep(row) == row # RoleRow(id, role) IN SelectSeq(table, keep)

\* removeRoleFromUser(userId, roleName) (lines 96-122), from call to return.
RemoveRoleFromUser ==
    /\ \E id \in UserIds, role \in RoleInputs :
          IF role \notin roleTable
          THEN /\ model_has_roles' = model_has_roles
               /\ roleCall' = RoleResult("removeRoleFromUser", id, role, TRUE,
                                         FALSE, "Role not found", 0)
          ELSE /\ model_has_roles' = deleteMany(model_has_roles, id, role)
               /\ roleCall' =
                     RoleResult("removeRoleFromUser", id, role, FALSE, TRUE,
                                "Role removed successfully",
                                Len(model_has_roles)
                                   - Len(deleteMany(model_has_roles, id, role)))
    /\ UNCHANGED roleRest

----------------------------------------------------------------------------
(* Specifications                                                          *)

\* No request has been received; the tables hold the users only.
Quiet ==
    /\ users = [u \in UserIds |-> "1"]
    /\ credentials = [u \in UserIds |-> None]
    /\ login = NoLogin
    /\ Seeded
    /\ submissions = <<>>
    /\ reviewRequests = <<>>
    /\ procs = [p \in ProcIds |-> IdleProc]
    /\ nreq = 0
    /\ response = NoResponse

Idle ==
    /\ Quiet
    /\ auth = NoAuth
    /\ NODE_ENV = "production"

Init ==
    /\ calcIn = [task1Band |-> None, task2Band |-> None]
    /\ calcOut = None
    /\ Idle

Next ==
    \E p \in ProcIds :
        \/ SubmitArrive(p)
        \/ SubmitRead(p)
        \/ SubmitEvaluate(p)
        \/ SubmitEvaluateFails(p)
        \/ SubmitWrite(p)
        \/ RequestReviewArrive(p)
        \/ RequestReviewRead(p)
        \/ RequestReviewCheck(p)
        \/ RequestReviewCreate(p)
        \/ ExpertReviewRead(p)
        \/ ExpertReviewUpdateSubmission(p)
        \/ ExpertReviewUpdateRequest(p)
        \/ UpdateStatusRead(p)
        \/ UpdateStatusWrite(p)

Spec == Init /\ [][Next]_vars

\* A submission as submitWritingTest stores it for a first request with
\* both tasks answered.
storedSubmission(id, user) ==
    submissionFields(
        newSubmission(id, user, 1),
        [test_id |-> 1,
         task1 |-> Some([answer_text |-> "a", word_count |-> 2]),
         task2 |-> Some([answer_text |-> "b", word_count |-> 2]),
         time_taken |-> 1],
        None,
        [task1 |-> Some([overall_band |-> 72, by |-> "ai", answer |-> "a"]),
         task2 |-> Some([overall_band |-> 90, by |-> "ai", answer |-> "b"])],
        1)

\* The tables writing_submissions can be when the review handlers are
\* called: up to MaxSubs submissions, each of any user.
StoredSubmissions ==
    UNION {{[i \in 1..n |-> storedSubmission(i, owner[i])] :
               owner \in [1..n -> UserIds]} : n \in 0..MaxSubs}

\* The expert-review handlers and the handlers that read one submission or
\* one review request, over the submissions already stored.
ReviewInit ==
    /\ calcIn = [task1Band |-> None, task2Band |-> None]
    /\ calcOut = None
    /\ users = [u \in UserIds |-> "1"]
    /\ credentials = [u \in UserIds |-> None]
    /\ login = NoLogin
    /\ Seeded
    /\ auth = NoAuth
    /\ NODE_ENV = "production"
    /\ submissions \in StoredSubmissions
    /\ reviewRequests = <<>>
    /\ procs = [p \in ProcIds |-> IdleProc]
    /\ nreq = 0
    /\ response = NoResponse

ReviewNext ==
    \E p \in ProcIds :
        \/ RequestReviewArrive(p)
        \/ RequestReviewRead(p)
        \/ RequestReviewCheck(p)
        \/ RequestReviewCreate(p)
        \/ ExpertReviewRead(p)
        \/ ExpertReviewUpdateSubmission(p)
        \/ ExpertReviewUpdateRequest(p)
        \/ UpdateStatusRead(p)
        \/ UpdateStatusWrite(p)
        \/ GetSubmissionDetailsArrive(p)
        \/ GetSubmissionDetailsRead(p)
        \/ GetReviewRequestDetailsArrive(p)
        \/ GetReviewRequestDetailsRead(p)
        \/ CheckStatusArrive(p)
        \/ CheckStatusRead(p)
        \/ CheckStatusAnswer(p)

ReviewSpec == ReviewInit /\ [][ReviewNext]_vars

\* submitWritingTest with overlapping requests, over the submissions already
\* stored.
OverlapNext ==
    \E p \in ProcIds :
        \/ SubmitArriveOverlapping(p)
        \/ SubmitRead(p)
        \/ SubmitEvaluate(p)
        \/ SubmitEvaluateFails(p)
        \/ SubmitWrite(p)

OverlapSpec == ReviewInit /\ [][OverlapNext]_vars

\* adminLogin, over the accounts the users table can hold.
LoginInit ==
    /\ calcIn = [task1Band |-> None, task2Band |-> None]
    /\ calcOut = None
    /\ users \in [UserIds -> Statuses \cup {Absent}]
    /\ credentials \in [UserIds -> StoredPasswords]
    /\ login = NoLogin
    /\ Seeded
    /\ auth = NoAuth
    /\ NODE_ENV = "production"
    /\ submissions = <<>>
    /\ reviewRequests = <<>>
    /\ procs = [p \in ProcIds |-> IdleProc]
    /\ nreq = 0
    /\ response = NoResponse

LoginNext ==
    \/ LoginArrive
    \/ LoginFindUser
    \/ LoginFindUserFails
    \/ LoginCompare
    \/ LoginRoles

LoginSpec == LoginInit /\ [][LoginNext]_vars

\* The calls of utils/roleHelper.js one after another, with the roles
\* seeded or the role User missing.
RoleHelperInit ==
    /\ calcIn = [task1Band |-> None, task2Band |-> None]
    /\ calcOut = None
    /\ users = [u \in UserIds |-> "1"]
    /\ credentials = [u \in UserIds |-> None]
    /\ login = NoLogin
    /\ submissions = <<>>
    /\ reviewRequests = <<>>
    /\ procs = [p \in ProcIds |-> IdleProc]
    /\ nreq = 0
    /\ response = NoResponse
    /\ auth = NoAuth
    /\ NODE_ENV = "production"
    /\ roleTable \in {{ROLES.ADMIN, ROLES.USER}, {ROLES.ADMIN}}
    /\ model_has_roles \in {<<>>, <<RoleRow(2, ROLES.ADMIN)>>}
    /\ accounts = [u \in UserIds |->
                      [email |-> u, google_id |-> 0, auth_provider |-> "local"]]
    /\ google = NoGoogle
    /\ roleCall = NoRoleCall

RoleHelperNext ==
    \/ AssignRoleToUser
    \/ RemoveRoleFromUser

RoleHelperSpec == RoleHelperInit /\ [][RoleHelperNext]_vars

\* googleAuthCallback, over a users table with one account and with the
\* roles seeded or the role User missing.
GoogleInit ==
    /\ calcIn = [task1Band |-> None, task2Band |-> None]
    /\ calcOut = None
    /\ users = [u \in UserIds |-> IF u = 1 THEN "1" ELSE Absent]
    /\ credentials = [u \in UserIds |-> None]
    /\ login = NoLogin
    /\ submissions = <<>>
    /\ reviewRequests = <<>>
    /\ procs = [p \in ProcIds |-> IdleProc]
    /\ nreq = 0
    /\ response = NoResponse
    /\ auth = NoAuth
    /\ NODE_ENV = "production"
    /\ roleTable \in {{ROLES.ADMIN, ROLES.USER}, {ROLES.ADMIN}}
    /\ model_has_roles \in {<<>>, <<RoleRow(1, ROLES.ADMIN)>>}
    /\ \E first \in {[email |-> 1, google_id |-> 0, auth_provider |-> "local"],
                      [email |-> 1, google_id |-> 0, auth_provider |-> "null"],
                      [email |-> 1, google_id |-> 1, auth_provider |-> "google"]} :
          accounts = [u \in UserIds |->
                         IF u = 1 THEN first
                         ELSE [email |-> 0, google_id |-> 0,
                               auth_provider |-> "null"]]
    /\ google = NoGoogle
    /\ roleCall = NoRoleCall

GoogleNext ==
    \/ GoogleArrive
    \/ GoogleFindByGoogleId
    \/ GoogleFindByEmail
    \/ GoogleLink
    \/ GoogleUpdatePicture
    \/ GoogleCreate
    \/ GoogleCreateFails
    \/ GoogleRedirect

GoogleSpec == GoogleInit /\ [][GoogleNext]_vars

\* calculateAverageBand on its own: the arguments are drawn in the initial
\* state and the call stores the result.
BandInit ==
    /\ calcIn \in [task1Band : BandInputs, task2Band : BandInputs]
    /\ calcOut = None
    /\ Idle

CallCalculateAverageBand ==
    /\ calcOut = None
    /\ calcOut' = Some(calculateAverageBand(calcIn.task1Band, calcIn.task2Band))
    /\ UNCHANGED <<calcIn, dbVars, reqVars, authVars, NODE_ENV, loginVars,
                   roleVars>>

BandNext == CallCalculateAverageBand

BandSpec == BandInit /\ [][BandNext]_vars

\* A request passing through authenticate while the admin handlers write to
\* users.
AuthNext ==
    \/ AuthArrive
    \/ AuthFindUser
    \/ AuthFindRoles
    \/ UserUpdate
    \/ UserDelete

AuthSpec == Init /\ [][AuthNext]_vars

\* Requests through the middleware of their routes to their handlers, in
\* each environment.
RouteInit ==
    /\ calcIn = [task1Band |-> None, task2Band |-> None]
    /\ calcOut = None
    /\ Quiet
    /\ auth = NoAuth
    /\ NODE_ENV \in Environments

RouteNext ==
    \/ AuthArrive
    \/ AuthFindUser
    \/ AuthFindRoles
    \/ OptionalArrive
    \/ OptionalFindUser
    \/ OptionalFindRoles
    \/ RouteGuard
    \/ HandlerUpdate
    \/ HandlerDeleteUser
    \/ HandlerOther

RouteSpec == RouteInit /\ [][RouteNext]_vars

\* The lists of required roles a route can pass to hasRole or hasAllRoles.
MaxRequired == 2
RequiredRoles ==
    UNION {[1..n -> RoleNames] : n \in 0..MaxRequired}

\* req.user as the first middleware can have left it: not attached (after
\* optionalAuth), or attached with the roles the user holds.
AttachedUsers ==
    {<<"optionalAuth", None>>} \cup
    {<<first,
       Some([id |-> id, roles |-> U,
             isAdmin |-> IF first = "authenticate" THEN "admin" \in U
                         ELSE "Admin" \in U])>> :
        first \in {"authenticate", "optionalAuth"}, id \in UserIds,
        U \in SUBSET RoleNames}

\* hasRole(R) and hasAllRoles(R) on their own: a request stands in front of
\* the role check with req.user as the first middleware left it.
RoleInit ==
    /\ calcIn = [task1Band |-> None, task2Band |-> None]
    /\ calcOut = None
    /\ Quiet
    /\ NODE_ENV = "production"
    /\ \E attached \in AttachedUsers, mw \in {"hasRole", "hasAllRoles"},
          R \in RequiredRoles :
          auth = [NoAuth EXCEPT
                    !.pc = "handler",
                    !.route = [name |-> "guarded",
                               stack |-> <<Middleware(attached[1], <<>>),
                                           Middleware(mw, R)>>,
                               id |-> 0],
                    !.reqUser = attached[2]]

RoleNext == RouteGuard

RoleSpec == RoleInit /\ [][RoleNext]_vars

----------------------------------------------------------------------------
(* Properties                                                              *)

\* The rounding rule of the specification, on a score in twelfths: fractional
\* part below 0.25 to floor, in [0.25, 0.75) to floor + 0.5, else to ceil.
BandRounding(score) ==
    LET whole == CHOOSE w \in {12 * k : k \in 0..(MaxQuarter + 1)} :
                    w <= score /\ score < w + 12
    IN  IF 4 * (score - whole) < 12 THEN whole
        ELSE IF 4 * (score - whole) < 36 THEN whole + 6
        ELSE whole + 12

IsHalfStep(band) == band = None \/ band[1] % 6 = 0

\* C1 as stated: with each band absent or in 0..9 in steps of 0.5, the result
\* is the rounding of task2 when only task2 is present, of task1 when only
\* task1 is present, of (task1 + 2*task2)/3 when both are, where a band of 0
\* counts as present.
C1_PresentZeroCounts ==
    LET t1 == calcIn.task1Band
        t2 == calcIn.task2Band
    IN  (calcOut # None /\ IsHalfStep(t1) /\ IsHalfStep(t2)) =>
          /\ (t1 = None /\ t2 # None) => calcOut[1] = BandRounding(t2[1])
          /\ (t1 # None /\ t2 = None) => calcOut[1] = BandRounding(t1[1])
          /\ (t1 # None /\ t2 # None) =>
                calcOut[1] = BandRounding((t1[1] + 2 * t2[1]) \div 3)

\* A band counts when it is given and is not 0.
Counts(band) == band # None /\ band[1] # 0

\* C1 amended: a band that is absent or 0 does not count; the result is 0 when
\* neither band counts, the rounding of the one band that counts when only one
\* does, and the rounding of (task1 + 2*task2)/3 when both count.
C1_AverageBand ==
    LET t1 == calcIn.task1Band
        t2 == calcIn.task2Band
    IN  calcOut # None =>
          /\ (~Counts(t1) /\ ~Counts(t2)) => calcOut[1] = 0
          /\ (~Counts(t1) /\ Counts(t2)) => calcOut[1] = BandRounding(t2[1])
          /\ (Counts(t1) /\ ~Counts(t2)) => calcOut[1] = BandRounding(t1[1])
          /\ (Counts(t1) /\ Counts(t2)) =>
                calcOut[1] = BandRounding((t1[1] + 2 * t2[1]) \div 3)

\* aggregation(6.0, 7.0) has been computed and is 6.5.
C1_Witness ==
    /\ calcIn = [task1Band |-> Some(72), task2Band |-> Some(84)]
    /\ calcOut = Some(78)

\* The handler of request p answers or goes on in this step.
Steps(p) == procs'[p] # procs[p]

\* The handler of request p writes its submission in this step.
Writes(p) == procs[p].pc = "write" /\ procs'[p].pc = "done"

\* The row a submitWritingTest handler has written: the one it read, or the
\* one it has just created.
WrittenRow(p) ==
    IF procs[p].local.existing # None
    THEN submissions'[procs[p].local.existing[1].id]
    ELSE submissions'[Len(submissions')]

\* C2: a resubmission that does not resupply a task (no entry, or an entry
\* with word_count 0) leaves the stored answer, word count and AI evaluation
\* of that task exactly as they were when the handler read the submission.
C2_UnsuppliedTaskRetained ==
    [][\A p \in ProcIds :
         (Writes(p) /\ procs[p].local.existing # None) =>
            \A n \in {1, 2} :
               ~hasTaskContent(procs[p].body, n) =>
                  /\ RowAnswer(WrittenRow(p), n)
                        = RowAnswer(procs[p].local.existing[1], n)
                  /\ RowWordCount(WrittenRow(p), n)
                        = RowWordCount(procs[p].local.existing[1], n)
                  /\ RowEval(WrittenRow(p), n)
                        = RowEval(procs[p].local.existing[1], n)]_vars

\* C3: for every resupplied task (entry with word_count > 0) of a request that
\* succeeds, the stored answer and word count are the request's, and the
\* stored evaluation is the one the evaluator produced for that answer in
\* this request.
C3_SuppliedTaskEvaluated ==
    [][\A p \in ProcIds :
         Writes(p) =>
            \A n \in {1, 2} :
               hasTaskContent(procs[p].body, n) =>
                  /\ RowAnswer(WrittenRow(p), n)
                        = Some(Entry(procs[p].body, n)[1].answer_text)
                  /\ RowWordCount(WrittenRow(p), n)
                        = Some(Entry(procs[p].body, n)[1].word_count)
                  /\ RowEval(WrittenRow(p), n) # None
                  /\ RowEval(WrittenRow(p), n)[1].by = "ai"
                  /\ RowEval(WrittenRow(p), n)[1].answer
                        = Entry(procs[p].body, n)[1].answer_text
                  /\ RowEval(WrittenRow(p), n)
                        = IF n = 1 THEN procs[p].local.newEvaluation.task1
                          ELSE procs[p].local.newEvaluation.task2]_vars

\* C4: every stored submission has non-empty answer text for at least one of
\* the two tasks.
C4_SomeTaskAnswered ==
    \A r \in Rows(submissions) :
        TruthyStr(r.task1_answer) \/ TruthyStr(r.task2_answer)

\* A resupplied task of the request whose word count is below half of the
\* word limit of its question.
BelowHalf(body, n) ==
    /\ hasTaskContent(body, n)
    /\ \E q \in Question(body.test_id, n) :
          2 * Entry(body, n)[1].word_count < q.word_limit

\* C5: a request with a resupplied task below 50% of its word limit is
\* answered 400 without a call of the evaluator and without a write; a request
\* whose resupplied tasks all reach 50% is not rejected.
C5_WordCountRule ==
    [][\A p \in ProcIds :
         (procs[p].pc = "read" /\ Steps(p)
             /\ procs[p].body.test_id \in DOMAIN writing_questions) =>
            /\ (BelowHalf(procs[p].body, 1) \/ BelowHalf(procs[p].body, 2)) =>
                  /\ procs'[p].pc = "done"
                  /\ response'.op = "submitWritingTest"
                  /\ response'.status = 400
                  /\ dbVars' = dbVars
            /\ ( /\ hasTaskContent(procs[p].body, 1)
                    \/ hasTaskContent(procs[p].body, 2)
                 /\ ~BelowHalf(procs[p].body, 1)
                 /\ ~BelowHalf(procs[p].body, 2) ) =>
                  procs'[p].pc \in {"evaluate", "write"}]_vars

\* A request was rejected for the word count of a task while a submission is
\* stored.
C5_Witness ==
    /\ response.op = "submitWritingTest"
    /\ response.status = 400
    /\ response.message \in {"Task 1 has too few words", "Task 2 has too few words"}
    /\ Len(submissions) > 0

\* C6: when the evaluator fails the request is answered 500 and no table
\* changes, so that the same request made again meets the state the failed
\* one met.
C6_EvaluatorFailure ==
    [][\A p \in ProcIds :
         (procs[p].pc = "evaluate" /\ Steps(p) /\ procs'[p].pc # "write") =>
            /\ procs'[p].pc = "done"
            /\ response' = [op |-> "submitWritingTest", status |-> 500,
                            message |-> "Failed to evaluate test"]
            /\ dbVars' = dbVars]_vars

\* The evaluator has failed on a resubmission: the stored submission is there
\* and the answer is 500.
C6_Witness ==
    /\ response = [op |-> "submitWritingTest", status |-> 500,
                   message |-> "Failed to evaluate test"]
    /\ \E r \in Rows(submissions) : r.time_taken > 0

\* C7: at most one expert review request per submission.
C7_OneRequestPerSubmission ==
    \A i, j \in 1..Len(reviewRequests) :
        reviewRequests[i].submission_id = reviewRequests[j].submission_id
            => i = j

\* Two overlapping requestExpertReview calls for one submission have both
\* passed the check; one has created the request and the other has been
\* refused.
C7_Witness ==
    /\ response.op = "requestExpertReview"
    /\ response.status = 500
    /\ Len(reviewRequests) = 1

\* C8: a requestExpertReview call by the owner that answers while a request
\* exists for the submission answers 409 and changes no request, also when
\* two calls overlap.
C8_DuplicateAnswered409 ==
    [][\A p \in ProcIds :
         (procs[p].op = "requestExpertReview" /\ procs[p].pc \in {"check", "create"}
             /\ procs'[p].pc = "done"
             /\ RequestsOf(procs[p].body.submission_id) # {}) =>
            /\ response'.status = 409
            /\ reviewRequests' = reviewRequests]_vars

\* overall_band of a stored evaluation, absent when there is none.
StoredBand(evaluation) ==
    IF evaluation = None THEN None ELSE Some(evaluation[1].overall_band)

\* C9: overall_band_score of every stored submission is calculateAverageBand
\* of the overall_band of its two stored evaluations, and only the write of
\* submitWritingTest changes it.
C9_OverallBandDerived ==
    /\ [](\A r \in Rows(submissions) :
            r.overall_band_score =
                calculateAverageBand(StoredBand(r.ai_evaluation.task1),
                                     StoredBand(r.ai_evaluation.task2)))
    /\ [][\A i \in 1..Len(submissions) :
            submissions'[i].overall_band_score # submissions[i].overall_band_score
                => \E p \in ProcIds : Writes(p)]_vars

\* A submission with two evaluated tasks and a derived score has received an
\* expert score.
C9_Witness ==
    \E r \in Rows(submissions) :
        /\ r.expert_score # None
        /\ r.ai_evaluation.task1 # None
        /\ r.ai_evaluation.task2 # None
        /\ r.overall_band_score # 0

\* The request carried a Bearer token that verifies and is not expired.
GoodBearer(header) ==
    /\ header # None
    /\ header[1].scheme = "Bearer"
    /\ header[1].token.form = "jwt"
    /\ header[1].token.signed
    /\ ~header[1].token.expired

\* C10: the handler runs only if the request carried a Bearer token that
\* verifies and is not expired and the user it names was found with status
\* "1"; every other request is answered 401 (token), 404 (no such user) or
\* 403 (inactive) and is not passed on.
C10_AuthenticateGate ==
    /\ auth.pc \in {"find_roles", "handler"} =>
          /\ GoodBearer(auth.header)
          /\ auth.user.id = auth.header[1].token.id
          /\ auth.user.status = "1"
    /\ auth.pc = "handler" =>
          auth.reqUser # None /\ auth.reqUser[1].id = auth.header[1].token.id
    /\ auth.pc = "answered" =>
          /\ auth.reqUser = None
          /\ auth.status =
                IF ~GoodBearer(auth.header) THEN 401
                ELSE IF auth.user = NoUser THEN 404
                ELSE 403
          /\ (GoodBearer(auth.header) /\ auth.user # NoUser) =>
                auth.user.status # "1"

\* The handler has run for a request with a good token while another user of
\* the table is inactive.
C10_Witness ==
    /\ auth.pc = "handler"
    /\ auth.reqUser # None
    /\ \E id \in UserIds : users[id] = "0"

\* el occurs in the list seq.
Includes(seq, el) == \E i \in 1..Len(seq) : seq[i] = el

\* C11: hasRole(R) calls next iff req.user is attached and some role of R is
\* among the user's roles; hasAllRoles(R) iff req.user is attached and every
\* role of R is; otherwise the answer is 401 without req.user and 403 with
\* it, and next is not called.
C11_RoleGate ==
    LET guard == auth.route.stack[2]
        U == auth.reqUser[1].roles
        anyOf == \E r \in RoleNames : Includes(guard.roles, r) /\ r \in U
        allOf == \A r \in RoleNames : Includes(guard.roles, r) => r \in U
    IN  auth.pc \in {"run", "refused"} =>
          /\ guard.mw = "hasRole" =>
                (auth.pc = "run" <=> (auth.reqUser # None /\ anyOf))
          /\ guard.mw = "hasAllRoles" =>
                (auth.pc = "run" <=> (auth.reqUser # None /\ allOf))
          /\ auth.pc = "refused" =>
                /\ auth.status = IF auth.reqUser = None THEN 401 ELSE 403
                /\ ~auth.success

\* hasRole(<<"Admin", "User">>) has let through a user who holds one of the
\* two roles only.
C11_Witness ==
    /\ auth.pc = "run"
    /\ auth.route.stack[2] = Middleware("hasRole", <<"Admin", "User">>)
    /\ auth.reqUser # None
    /\ auth.reqUser[1].roles = {"User"}

\* C13 as stated: on PUT /api/user/profile/:id with a numeric :id the request
\* is let through iff the authenticated user's id equals :id or the user
\* holds the Admin role, and every other authenticated user is answered 403.
C13_OwnerOrAdmin ==
    (auth.route.name = "user_profile_put" /\ auth.route.id # 0
        /\ auth.pc \in {"run", "refused"}) =>
        /\ auth.pc = "run" <=>
              \/ auth.reqUser[1].id = auth.route.id
              \/ ROLES.ADMIN \in auth.reqUser[1].roles
        /\ auth.pc = "refused" => auth.status = 403

\* The routes to createTest, updateTest, deleteTest and to index, create,
\* store, edit, update, deleteUser.
AdminRoutes ==
    {"user_index", "user_create", "user_store", "user_edit", "user_update",
     "user_delete", "tests_create", "tests_update", "tests_delete"}

VerifyThrew ==
    /\ auth.header # None
    /\ auth.header[1].scheme = "Bearer"
    /\ jwtVerify(auth.header[1].token) # ""

\* The response is an error envelope: an error status, success false, a
\* message, and the stack only in development.
ErrorEnvelope ==
    /\ auth.status >= 400
    /\ ~auth.success
    /\ auth.message # ""
    /\ auth.fullError => NODE_ENV = "development"

C17_OptionalAuth ==
    /\ [](auth.route.stack # <<>> /\ auth.route.stack[1].mw = "optionalAuth" =>
            /\ auth.pc \in {"optional_find_user", "optional_find_roles",
                            "handler", "ran"}
            /\ auth.pc \in {"handler", "ran"} =>
                  /\ auth.reqUser # None <=>
                        /\ GoodBearer(auth.header)
                        /\ auth.user # NoUser
                        /\ auth.user.id = auth.header[1].token.id
                        /\ auth.user.status = "1"
                  /\ auth.reqUser # None =>
                        auth.reqUser[1].id = auth.header[1].token.id)
    /\ [][(auth.pc \in {"optional_find_user", "optional_find_roles"}
              /\ auth' # auth) =>
            /\ auth'.pc \in {"optional_find_roles", "handler"}
            /\ auth'.status = 0
            /\ auth'.user = findUser(auth.header[1].token.id)]_vars

\* A request with a good token of an inactive user has gone on through
\* optionalAuth without req.user.
C17_Witness ==
    /\ auth.route.name = "tests_list"
    /\ auth.pc = "handler"
    /\ GoodBearer(auth.header)
    /\ auth.user.status = "0"
    /\ auth.reqUser = None

----------------------------------------------------------------------------
\* The handlers of the admin routes of routes/takeTest/expertReviewRoutes.js
\* that write.
AdminReviewHandlers == {"submitExpertReview", "updateReviewRequestStatus"}

\* C12: the admin expert-review endpoints require the admin role: no request
\* by a user whose role set does not contain the Admin role sets a
\* submission's expert score and feedback or changes a review request's
\* status. Every write of submitExpertReview or updateReviewRequestStatus to
\* writing_submissions or expert_review_requests is by a user with the role
\* Admin.
C12_AdminOnlyReview ==
    [][\A p \in ProcIds :
          (/\ Steps(p)
           /\ procs[p].op \in AdminReviewHandlers
           /\ dbVars' # dbVars)
          => ROLES.ADMIN \in userRoleNames(procs[p].user)]_vars

----------------------------------------------------------------------------
\* The handlers that check whose row they were asked for.
OwnerHandlers ==
    {"getSubmissionDetails", "requestExpertReview", "checkExpertReviewStatus",
     "getReviewRequestDetails"}

\* The row a request of one of these handlers names, if there is one.
NamedRow(proc) ==
    IF proc.op = "getReviewRequestDetails"
    THEN IF proc.body.requestId <= Len(reviewRequests)
         THEN Some(reviewRequests[proc.body.requestId]) ELSE None
    ELSE IF proc.body.submission_id <= Len(submissions)
         THEN Some(submissions[proc.body.submission_id]) ELSE None

\* The handler of request p is answered its first query.
Finds(p) ==
    /\ procs[p].pc = "find"
    /\ procs[p].op \in OwnerHandlers
    /\ Steps(p)

\* C18: getSubmissionDetails, requestExpertReview and checkExpertReviewStatus
\* answer 403 when the submission's user_id differs from the authenticated
\* user's id, and getReviewRequestDetails when the request's user_id differs;
\* the answer is the error envelope with the message alone, the request ends
\* there and no table is changed. 403 is answered in no other case.
C18_OwnRowsOnly ==
    [][\A p \in ProcIds :
          Finds(p) =>
             LET row == NamedRow(procs[p])
                 foreign == row # None /\ row[1].user_id # procs[p].user
             IN  /\ foreign =>
                       /\ response' = [op |-> procs[p].op, status |-> 403,
                                       message |-> "Unauthorized access"]
                       /\ procs'[p] = DoneProc
                       /\ dbVars' = dbVars
                 /\ (response' # response /\ response'.status = 403) => foreign]_vars

\* A user has asked for the review request of another user and was
\* answered 403.
C18_Witness ==
    /\ response.op = "getReviewRequestDetails"
    /\ response.status = 403
    /\ Len(reviewRequests) > 0

----------------------------------------------------------------------------
\* The handler of request p is at its call of evaluateWritingTest.
Evaluating(proc) == proc.op = "submitWritingTest" /\ proc.pc = "evaluate"

\* The tasks of the argument of evaluateWritingTest.
SentTasks(body) == {n \in {1, 2} : submissionDataTask(body, n) # None}

\* C20: within one submitWritingTest request the evaluator is called at most
\* once, only after the both-empty check and the word-count checks have
\* passed, and only with tasks resupplied in this request: a task retained
\* from the stored submission is never sent, and a request that resupplies no
\* task does not call the evaluator.
C20_EvaluatorCalledOnce ==
    [][\A p \in ProcIds :
          Steps(p) =>
             /\ Evaluating(procs'[p]) =>
                   /\ procs[p].pc = "read"
                   /\ submitRejection(procs'[p].body, procs'[p].local.existing)
                         = Accepted
                   /\ SentTasks(procs'[p].body) # {}
                   /\ \A n \in SentTasks(procs'[p].body) :
                         /\ hasTaskContent(procs'[p].body, n)
                         /\ existingTask(procs'[p].body,
                                         procs'[p].local.existing, n) = None
             /\ Evaluating(procs[p]) => procs'[p].pc \in {"write", "done"}
             /\ (procs[p].pc = "read" /\ procs[p].op = "submitWritingTest"
                   /\ ~hasTaskContent(procs[p].body, 1)
                   /\ ~hasTaskContent(procs[p].body, 2))
                => ~Evaluating(procs'[p])
             /\ (procs[p].pc = "write" /\ procs[p].op = "submitWritingTest")
                => procs'[p].pc = "done"]_vars

\* A resubmission of one task is at the call of the evaluator with that task
\* alone, the other task being retained from the stored submission.
C20_Witness ==
    \E p \in ProcIds :
        /\ Evaluating(procs[p])
        /\ SentTasks(procs[p].body) = {2}
        /\ existingTask(procs[p].body, procs[p].local.existing, 1) # None

----------------------------------------------------------------------------
\* The row the handler of request p read at its start no longer is the
\* stored one: another request has written it since.
Stale(p) ==
    /\ procs[p].op = "submitWritingTest"
    /\ procs[p].pc \in {"evaluate", "write"}
    /\ procs[p].local.existing # None
    /\ submissions[procs[p].local.existing[1].id] # procs[p].local.existing[1]

\* The data of the update of request p, computed from its body and from the
\* row it read at its start.
UpdateData(p) ==
    submissionFields(procs[p].local.existing[1], procs[p].body,
                     procs[p].local.existing, procs[p].local.newEvaluation,
                     procs[p].local.existing[1].time_taken
                        + procs[p].body.time_taken)

\* C16: when two resubmissions of a user for a test overlap, neither is
\* rejected for the conflict and the stored row is the one written by the
\* update that executes last: an update over a row that another request has
\* written since it was read is answered 200, and every column of its data
\* is stored as computed from the request and the row it read, whatever the
\* other request has written.
C16_LastWriteWins ==
    [][\A p \in ProcIds :
          (Writes(p) /\ Stale(p)) =>
             /\ response' = [op |-> "submitWritingTest", status |-> 200,
                             message |-> "Test submitted successfully"]
             /\ \A f \in {"task1_answer", "task1_word_count", "task2_answer",
                          "task2_word_count", "time_taken", "ai_evaluation",
                          "overall_band_score"} :
                   WrittenRow(p)[f] = UpdateData(p)[f]
             /\ \A i \in 1..Len(submissions) :
                   i # procs[p].local.existing[1].id
                   => submissions'[i] = submissions[i]]_vars

\* A resubmission has been written and answered 200 while another one, which
\* read the row before, is at its write with answers that differ from the
\* stored ones.
C16_Witness ==
    \E p \in ProcIds :
        /\ Stale(p)
        /\ procs[p].pc = "write"
        /\ response.op = "submitWritingTest"
        /\ response.status = 200
        /\ UpdateData(p).task1_answer
              # submissions[procs[p].local.existing[1].id].task1_answer

----------------------------------------------------------------------------
\* The account the email of the login request names is active, has a
\* password that is the supplied one, and has the role Admin.
AdminCredentials ==
    /\ login.email \in UserIds
    /\ users[login.email] = "1"
    /\ credentials[login.email] # None
    /\ login.password # None
    /\ credentials[login.email][1].of = login.password[1]
    /\ ROLES.ADMIN \in userRoleNames(login.email)

\* C19: adminLogin returns a token only when the email matches an existing
\* user whose status is "1", who has a stored password that matches the
\* supplied one, and whose role set contains "Admin"; every other request is
\* answered an error without token: 400 for a missing email or password, 401
\* for an unknown email, a wrong password or an account without password, 403
\* for an inactive account or a user without the Admin role, also when the
\* role lookup fails.
C19_AdminLogin ==
    login.pc = "answered" =>
       /\ login.token # None => (AdminCredentials /\ login.status = 200)
       /\ login.status = 200 => login.token # None
       /\ login.status \in {200, 400, 401, 403, 500}
       /\ (login.email = 0 \/ login.password = None) <=> login.status = 400
       /\ login.status = 401 =>
             \/ login.email \notin UserIds
             \/ users[login.email] = Absent
             \/ credentials[login.email] = None
             \/ credentials[login.email][1].of # login.password[1]
       /\ login.status = 403 =>
             /\ login.email \in UserIds
             /\ \/ users[login.email] = "0"
                \/ login.roles # None /\ ROLES.ADMIN \notin login.roles[1]
       /\ (login.roles # None /\ login.roles[1] = {}) => login.status = 403
       /\ login.status = 500 => login.user = NoUser

\* An administrator whose password was hashed by Laravel has logged in.
C19_Witness ==
    /\ login.pc = "answered"
    /\ login.token # None
    /\ credentials[login.email][1].version = "$2y$"

----------------------------------------------------------------------------
\* C21: the status of every expert review request is one of pending,
\* in_progress, completed, rejected, and a call of submitExpertReview or
\* updateReviewRequestStatus that supplies any other status is rejected
\* before its first query: no handler of them is between two awaits with a
\* status outside validStatuses.
C21_StatusEnum ==
    /\ \A r \in Rows(reviewRequests) : r.status \in validStatuses
    /\ \A p \in ProcIds :
          (/\ InFlight(p)
           /\ procs[p].op \in AdminReviewHandlers
           /\ procs[p].body.status # None)
          => procs[p].body.status[1] \in validStatuses

----------------------------------------------------------------------------
\* C22: every expert review request whose status is completed or rejected
\* has reviewed_at set, updateReviewRequestStatus and submitExpertReview
\* setting it in the update that sets the status; a request that has just
\* been created is pending and has no reviewed_at.
C22_ReviewedAtSet ==
    /\ [](\A r \in Rows(reviewRequests) :
             r.status \in {"completed", "rejected"} => r.reviewed_at)
    /\ [][Len(reviewRequests') > Len(reviewRequests) =>
             /\ Len(reviewRequests') = Len(reviewRequests) + 1
             /\ reviewRequests'[Len(reviewRequests')].status = "pending"
             /\ ~reviewRequests'[Len(reviewRequests')].reviewed_at]_vars

\* updateReviewRequestStatus has rejected a request that no review was
\* submitted for.
C22_Witness ==
    /\ response.op = "updateReviewRequestStatus"
    /\ response.status = 200
    /\ \E r \in Rows(reviewRequests) :
          /\ r.status = "rejected"
          /\ r.reviewed_at
          /\ submissions[r.submission_id].expert_score = None

----------------------------------------------------------------------------
\* C24: after any sequence of assignRoleToUser and removeRoleFromUser calls,
\* one after another, there is at most one role-assignment row per user and
\* role; assigning a role the user already has creates no row and returns
\* success = false; after removeRoleFromUser(u, r) has returned,
\* getUserRoles(u) does not contain r.
C24_OneRowPerUserRole ==
    /\ [](/\ \A i, j \in 1..Len(model_has_roles) :
                model_has_roles[i] = model_has_roles[j] => i = j
          /\ (roleCall.fn = "removeRoleFromUser" /\ ~roleCall.threw)
             => \A names \in getUserRoles(roleCall.user) :
                   roleCall.role \notin names)
    /\ [][(/\ roleCall'.fn = "assignRoleToUser"
           /\ existingRole(roleCall'.user, roleCall'.role))
          => /\ model_has_roles' = model_has_roles
             /\ ~roleCall'.threw
             /\ ~roleCall'.success]_vars

\* A user who had been given both roles was refused a role they have.
C24_Witness ==
    /\ roleCall.fn = "assignRoleToUser"
    /\ ~roleCall.threw
    /\ ~roleCall.success
    /\ userRoleNames(roleCall.user) = {ROLES.ADMIN, ROLES.USER}

----------------------------------------------------------------------------
\* The rows of users with the Google identity of the request.
GoogleUsers ==
    {u \in UserIds : /\ users[u] # Absent
                     /\ accounts[u].google_id = google.googleId
                     /\ accounts[u].email = google.email}

\* C23: when googleAuthCallback has handled a Google identity that matched
\* no user, either the new user and its assignment of the role User both
\* exist, or neither exists and the browser has been redirected to the
\* sign-in page with an error.
C23_UserWithRole ==
    (google.pc = "done" /\ google.branch = "create") =>
       \/ /\ GoogleUsers = {google.user}
          /\ ROLES.USER \in userRoleNames(google.user)
       \/ /\ GoogleUsers = {}
          /\ google.sent = Some(Redirect("/signin?error"))

====
